---- MODULE Spec2Model ----
(***************************************************************************)
(* A state-machine model of the cybernetic feedback engine of              *)
(* src/cybernetics.py: the weighted rule generator, the adaptive           *)
(* SystemPrimitive, the Statement feedback score and the CyberneticSystem  *)
(* cycle controller; and of the alternate controller of src/Cybernetics.py *)
(* (add_statement, process_cycle), which has its own variables.            *)
(*                                                                         *)
(* Reals are fixed-point integers in thousandths: One stands for 1.0, and  *)
(* a product or a quotient is rounded down to the next thousandth.         *)
(***************************************************************************)
EXTENDS Integers, Sequences, FiniteSets, TLC

VARIABLES
    statements,         \* CyberneticSystem.statements: Statement objects in creation order
    adaptation_cycles,  \* CyberneticSystem.adaptation_cycles
    system_state,       \* CyberneticSystem.system_state
    new_statements,     \* CyberneticSystem.new_statements: <<cycle, statement id>>
    pc,                 \* position of process_feedback_cycle: "idle" or "loop"
    snapshot,           \* the list self.statements.copy() being iterated (statement ids)
    idx,                \* number of snapshot entries already iterated
    total_feedback,     \* local total_feedback of process_feedback_cycle
    cycle_metrics,      \* local cycle_metrics; after the call, the value it returned
    prim,               \* a stand-alone SystemPrimitive driven directly through adapt
    last_call,          \* the latest adapt call on prim: arguments and outcome
    rules,              \* StatementGenerator.rules of a stand-alone generator
    gen_call,           \* the latest generate call on that generator
    alt_statements,     \* src/Cybernetics.py: CyberneticSystem.statements
    manifest_purpose,   \* src/Cybernetics.py: CyberneticSystem.manifest_purpose, <<>> for None
    system_metrics,     \* src/Cybernetics.py: CyberneticSystem.system_metrics
    alt_pc,             \* position of process_cycle: "idle" or "loop"
    position,           \* index of the list iterator of process_cycle's outer loop
    alt_cycle_metrics   \* local cycle_metrics of process_cycle; afterwards, the value returned

vars == <<statements, adaptation_cycles, system_state, new_statements, pc, snapshot,
          idx, total_feedback, cycle_metrics, prim, last_call, rules, gen_call,
          alt_statements, manifest_purpose, system_metrics, alt_pc, position,
          alt_cycle_metrics>>

controllerVars == <<statements, adaptation_cycles, system_state, new_statements, pc,
                    snapshot, idx, total_feedback, cycle_metrics>>
primVars == <<prim, last_call>>
genVars == <<rules, gen_call>>
altVars == <<alt_statements, manifest_purpose, system_metrics, alt_pc, position,
             alt_cycle_metrics>>

----------------------------------------------------------------------------
(* Numbers *)

\* 1.0 in thousandths
One == 1000

\* Python's None
None == "None"

\* the value of last_call and gen_call before any call
NoCall == [made |-> FALSE]

Abs(x) == IF x < 0 THEN -x ELSE x
Min(a, b) == IF a <= b THEN a ELSE b
Max(a, b) == IF a >= b THEN a ELSE b

\* a * b on thousandths
Mul(a, b) == (a * b) \div One

\* a / b on thousandths (b # 0)
Div(a, b) == (a * One) \div b

----------------------------------------------------------------------------
(* Text.  Only two things are ever asked of a text: equality, and whether a *)
(* keyword occurs in its lower-cased form.                                  *)

Keywords == <<"efficiency", "security", "reliability", "adaptation">>

\* the keywords that are substrings of text.lower()
KeywordsIn(text) ==
    CASE text = "Efficiency_Primitive" -> {"efficiency"}
      [] text = "Security_Primitive" -> {"security"}
      [] text = "Reliability_Primitive" -> {"reliability"}
      [] text = "Adaptation_Primitive" -> {"adaptation"}
      [] text = "Generic_Primitive" -> {}
      [] text = "Improve system efficiency through resource optimization" -> {"efficiency"}
      [] text = "Enhance security protocols for data protection" -> {"security"}
      [] text = "Implement reliability measures for critical components" -> {"reliability"}
      [] text = "Enable adaptive responses to system changes" -> {}
      [] text = "Optimize CPU allocation using machine learning" -> {}
      [] text = "Implement caching for improved system efficiency" -> {"efficiency"}
      [] text = "Implement encryption to protect against data breaches" -> {}
      [] text = "Enhance network security using blockchain" -> {"security"}
      [] text = "Deploy fault tolerance to ensure core functions stability" -> {}
      [] text = "Implement failover for improved system reliability" -> {"reliability"}
      [] text = "Deploy dynamic controls for improved system adaptability" -> {}
      [] text = "Enhance efficiency using feedback-driven adaptation" -> {"efficiency", "adaptation"}
      [] text = "Optimize system efficiency for resource management" -> {"efficiency"}
      [] text = "Implement enhanced security protocols for data protection" -> {"security"}
      [] text = "Establish monitoring systems for performance metrics" -> {}
      [] OTHER -> {}

\* keyword in text.lower()
Contains(keyword, text) == keyword \in KeywordsIn(text)

----------------------------------------------------------------------------
(* GenerationRule and StatementGenerator *)

\* A condition is a closure over a context; the closures of the source are
\* represented by their kind and the values they capture.
Holds(condition, context) ==
    CASE condition.kind = "feedback_score_gt" ->
            context.feedback_score > condition.bound
      [] condition.kind = "in_name" ->
            Contains(condition.keyword, condition.name)
      [] condition.kind = "stability_lt" ->
            context.system_state.stability < condition.bound
      [] condition.kind = "in_name_or_stability_lt" ->
            \/ Contains(condition.keyword, condition.name)
            \/ context.system_state.stability < condition.bound
      [] condition.kind = "adaptation_rate_gt" ->
            context.adaptation_rate > condition.bound
      [] condition.kind = "never" -> FALSE

should_apply_any(rule, context) ==
    \E i \in 1..Len(rule.conditions) : Holds(rule.conditions[i], context)

should_apply(rule, context) ==
    \A i \in 1..Len(rule.conditions) : Holds(rule.conditions[i], context)

\* random.choice(self.templates) with the placeholders filled: each entry of
\* rule.templates is one rendering, choice the random index drawn
generate_statement(rule, context, choice) ==
    rule.templates[((choice - 1) % Len(rule.templates)) + 1]

\* [rule for rule in self.rules if rule.should_apply(context)]
applicable_rules(rs, context) ==
    SelectSeq(rs, LAMBDA rule : should_apply(rule, context))

RECURSIVE SumWeights(_)
SumWeights(rs) ==
    IF rs = <<>> THEN 0 ELSE Head(rs).weight + SumWeights(Tail(rs))

RECURSIVE SelectFromStrict(_, _, _, _)
SelectFromStrict(rs, i, cumulative_weight, random_val) ==
    IF i > Len(rs) THEN 0
    ELSE IF random_val < cumulative_weight + rs[i].weight THEN i
    ELSE SelectFromStrict(rs, i + 1, cumulative_weight + rs[i].weight, random_val)

RECURSIVE SelectFromNoAccumulate(_, _, _, _)
SelectFromNoAccumulate(rs, i, cumulative_weight, random_val) ==
    IF i > Len(rs) THEN 0
    ELSE IF random_val <= rs[i].weight THEN i
    ELSE SelectFromNoAccumulate(rs, i + 1, cumulative_weight, random_val)

\* the for loop of generate: the index of the first rule whose cumulative
\* weight reaches random_val, 0 when the loop falls through
RECURSIVE SelectFrom(_, _, _, _)
SelectFrom(rs, i, cumulative_weight, random_val) ==
    IF i > Len(rs) THEN 0
    ELSE IF random_val <= cumulative_weight + rs[i].weight THEN i
    ELSE SelectFrom(rs, i + 1, cumulative_weight + rs[i].weight, random_val)

\* random.uniform(0, total_weight) is 0 + (total_weight - 0) * random.random();
\* u is the value of random.random()
uniform(total_weight, u) == Mul(total_weight, u)

\* generate(context), with u and choice the values drawn from the random source
generate(rs, context, u, choice) ==
    LET applicable == applicable_rules(rs, context)
        total_weight == SumWeights(applicable)
        random_val == uniform(total_weight, u)
        selected == SelectFrom(applicable, 1, 0, random_val)
    IN  IF applicable = <<>> THEN None
        ELSE IF selected = 0 THEN None
        ELSE generate_statement(applicable[selected], context, choice)

----------------------------------------------------------------------------
(* SystemPrimitive *)

adaptation_threshold == 700
learning_rate == 100

\* the rule list _create_generator builds for a primitive called name
create_generator(name) ==
    << [name |-> "efficiency_improvement",
        conditions |-> << [kind |-> "feedback_score_gt", bound |-> 700],
                          [kind |-> "in_name", keyword |-> "efficiency", name |-> name] >>,
        templates |-> << "Optimize CPU allocation using machine learning",
                         "Implement caching for improved system efficiency" >>,
        weight |-> 1500],
       [name |-> "security_enhancement",
        conditions |-> << [kind |-> "in_name", keyword |-> "security", name |-> name],
                          [kind |-> "stability_lt", bound |-> 800] >>,
        templates |-> << "Implement encryption to protect against data breaches",
                         "Enhance network security using blockchain" >>,
        weight |-> 1200],
       [name |-> "reliability_improvement",
        conditions |-> << [kind |-> "in_name_or_stability_lt", keyword |-> "reliability",
                           name |-> name, bound |-> 600] >>,
        templates |-> << "Deploy fault tolerance to ensure core functions stability",
                         "Implement failover for improved system reliability" >>,
        weight |-> 1000],
       [name |-> "adaptation_improvement",
        conditions |-> << [kind |-> "adaptation_rate_gt", bound |-> 500] >>,
        templates |-> << "Deploy dynamic controls for improved system adaptability",
                         "Enhance efficiency using feedback-driven adaptation" >>,
        weight |-> 800] >>

\* SystemPrimitive(name, description); the generator is create_generator(name)
SystemPrimitive(name) ==
    [name |-> name,
     adaptation_threshold |-> adaptation_threshold,
     adaptation_history |-> <<>>,
     metrics |-> [reliability |-> 900, complexity |-> 600, maintainability |-> 800,
                  adaptation_rate |-> 0]]

AdaptsAtThreshold(p, feedback) == Abs(feedback) >= p.adaptation_threshold

\* if abs(feedback) > self.adaptation_threshold
Adapts(p, feedback) == Abs(feedback) > p.adaptation_threshold

\* self.metrics["adaptation_rate"] * (1 - learning_rate) + abs(feedback) * learning_rate
UpdatedRate(rate, feedback) ==
    Mul(rate, One - learning_rate) + Mul(Abs(feedback), learning_rate)

UpdatedMetricUnclamped(m, feedback) == Mul(m, One + Mul(learning_rate, feedback))

UpdatedMetricDamped(m, feedback) ==
    IF feedback > 0
    THEN Min(One, Mul(m, One - Mul(learning_rate, feedback)))
    ELSE Max(0, Mul(m, One + Mul(learning_rate, feedback)))

\* one of reliability, complexity, maintainability after the update
UpdatedMetric(m, feedback) ==
    IF feedback > 0
    THEN Min(One, Mul(m, One + Mul(learning_rate, feedback)))
    ELSE Max(0, Mul(m, One + Mul(learning_rate, feedback)))

UpdatedMetrics(metrics, feedback) ==
    [reliability |-> UpdatedMetric(metrics.reliability, feedback),
     complexity |-> UpdatedMetric(metrics.complexity, feedback),
     maintainability |-> UpdatedMetric(metrics.maintainability, feedback),
     adaptation_rate |-> UpdatedRate(metrics.adaptation_rate, feedback)]

generation_context_stale(p, feedback, context) ==
    [feedback_score |-> feedback,
     system_state |-> context.system_state,
     adaptation_rate |->
        p.adaptation_history[Len(p.adaptation_history)].previous_metrics.adaptation_rate,
     cycle |-> context.cycle]

\* the context adapt hands to the generator
generation_context(p, feedback, context) ==
    [feedback_score |-> feedback,
     system_state |-> context.system_state,
     adaptation_rate |-> p.metrics.adaptation_rate,
     cycle |-> context.cycle]

adapt_aliased(p, feedback, context, u, choice) ==
    IF Adapts(p, feedback)
    THEN LET adaptation == [feedback |-> feedback, context |-> context,
                            previous_metrics |-> UpdatedMetrics(p.metrics, feedback)]
             q == [p EXCEPT !.metrics = UpdatedMetrics(p.metrics, feedback),
                            !.adaptation_history = Append(p.adaptation_history, adaptation)]
         IN  [primitive |-> q,
              result |-> generate(create_generator(q.name),
                                  generation_context(q, feedback, context),
                                  u, choice),
              generated |-> TRUE]
    ELSE [primitive |-> p, result |-> None, generated |-> FALSE]

\* adapt(feedback, context): the primitive afterwards, the value returned and
\* whether the generator was invoked
adapt(p, feedback, context, u, choice) ==
    IF Adapts(p, feedback)
    THEN LET adaptation == [feedback |-> feedback, context |-> context,
                            previous_metrics |-> p.metrics]
             q == [p EXCEPT !.metrics = UpdatedMetrics(p.metrics, feedback),
                            !.adaptation_history = Append(p.adaptation_history, adaptation)]
         IN  [primitive |-> q,
              result |-> generate(create_generator(q.name),
                                  generation_context(q, feedback, context),
                                  u, choice),
              generated |-> TRUE]
    ELSE [primitive |-> p, result |-> None, generated |-> FALSE]

----------------------------------------------------------------------------
(* Statement *)

FeedbackTypes == {"positive", "negative", "neutral"}

\* Statement(content, generated_from=generated_from)
Statement(content, generated_from) ==
    [content |-> content,
     system_primitives |-> <<>>,
     feedback_history |-> <<>>,
     generated_from |-> generated_from]

add_feedback_prepend(statement, feedback_type, strength) ==
    [statement EXCEPT !.feedback_history = << <<feedback_type, strength>> >> \o @]

\* self.feedback_history.append((feedback_type, strength))
add_feedback(statement, feedback_type, strength) ==
    [statement EXCEPT !.feedback_history = Append(@, <<feedback_type, strength>>)]

\* math.exp(i / n) for 0 <= i < n, in thousandths: the power series of exp,
\* summed on millionths until its terms vanish
RECURSIVE ExpSeries(_, _, _, _)
ExpSeries(i, n, k, term) ==
    IF term = 0 THEN 0
    ELSE term + ExpSeries(i, n, k + 1, (term * i) \div (n * (k + 1)))

ExpReversed(i, n) == ExpSeries(n - 1 - i, n, 0, One * One) \div One

Exp(i, n) == ExpSeries(i, n, 0, One * One) \div One

RECURSIVE ScoreSumsUnsigned(_, _)
ScoreSumsUnsigned(history, i) ==
    IF i > Len(history) THEN <<0, 0>>
    ELSE LET weight == Exp(i - 1, Len(history))
             rest == ScoreSumsUnsigned(history, i + 1)
             contribution == IF history[i][1] = "neutral" THEN 0
                             ELSE Mul(history[i][2], weight)
         IN  <<contribution + rest[1], weight + rest[2]>>

\* the loop of get_feedback_score from entry i (1-based) on:
\* <<weighted_sum, total_weight>>
RECURSIVE ScoreSums(_, _)
ScoreSums(history, i) ==
    IF i > Len(history) THEN <<0, 0>>
    ELSE LET weight == Exp(i - 1, Len(history))
             feedback_type == history[i][1]
             strength == history[i][2]
             rest == ScoreSums(history, i + 1)
             contribution == IF feedback_type = "positive" THEN Mul(strength, weight)
                             ELSE IF feedback_type = "negative" THEN -Mul(strength, weight)
                             ELSE 0
         IN  <<contribution + rest[1], weight + rest[2]>>

get_feedback_score(history) ==
    IF history = <<>> THEN 0
    ELSE LET sums == ScoreSums(history, 1)
         IN  IF sums[2] > 0 THEN Div(sums[1], sums[2]) ELSE 0

----------------------------------------------------------------------------
(* CyberneticSystem *)

feedback_threshold == 600

\* system_state as __init__ sets it
InitialSystemState == [stability |-> One, complexity |-> 0, adaptation_rate |-> 0]

\* _create_primitive_for_statement: the first keyword, in the order of the
\* keywords dict, that occurs in content.lower() names the primitive
RECURSIVE PrimitiveNameFrom(_, _)
PrimitiveNameFrom(content, k) ==
    IF k > Len(Keywords) THEN "Generic_Primitive"
    ELSE IF Contains(Keywords[k], content)
         THEN CASE Keywords[k] = "efficiency" -> "Efficiency_Primitive"
                [] Keywords[k] = "security" -> "Security_Primitive"
                [] Keywords[k] = "reliability" -> "Reliability_Primitive"
                [] Keywords[k] = "adaptation" -> "Adaptation_Primitive"
         ELSE PrimitiveNameFrom(content, k + 1)

create_primitive_for_statement(content) ==
    SystemPrimitive(PrimitiveNameFrom(content, 1))

add_statement_unlinked(stmts, content, generated_from) ==
    Append(stmts,
           [Statement(content, None) EXCEPT
               !.system_primitives = Append(@, create_primitive_for_statement(content))])

add_statement_two_primitives(stmts, content, generated_from) ==
    Append(stmts,
           [Statement(content, generated_from) EXCEPT
               !.system_primitives = <<create_primitive_for_statement(content),
                                       create_primitive_for_statement(content)>>])

\* add_statement: self.statements afterwards; the new statement is the last
add_statement(stmts, content, generated_from) ==
    Append(stmts,
           [Statement(content, generated_from) EXCEPT
               !.system_primitives = Append(@, create_primitive_for_statement(content))])

InitialCycleMetrics ==
    [processed_statements |-> 0, adaptations |-> 0, average_feedback |-> 0,
     primitive_metrics |-> [n \in {} |-> n]]

CountAdaptationWithText(metrics, primitive, new_statement_content) ==
    [metrics EXCEPT
        !.adaptations = IF new_statement_content # None THEN @ + 1 ELSE @,
        !.primitive_metrics = (primitive.name :> primitive.metrics) @@ @]

\* the last two lines of the loop over the primitives: the adaptation counter
\* and the metrics of the primitive just handed to adapt
CountAdaptation(metrics, primitive, new_statement_content) ==
    [metrics EXCEPT
        !.adaptations = @ + 1,
        !.primitive_metrics = (primitive.name :> primitive.metrics) @@ @]

RECURSIVE AdaptPrimitivesConsuming(_, _, _, _, _, _, _)
AdaptPrimitivesConsuming(sys, s, j, feedback_score, context, cycle, rnd) ==
    IF j > Len(sys.statements[s].system_primitives) THEN sys
    ELSE LET primitive == sys.statements[s].system_primitives[j]
             out == adapt(primitive, feedback_score, context,
                          rnd[j].u, rnd[j].choice)
             adapted == [sys.statements EXCEPT ![s].system_primitives[j] = out.primitive,
                                               ![s].feedback_history = <<>>]
             new_statement_content == out.result
             stmts == IF new_statement_content # None
                      THEN add_statement(adapted, new_statement_content,
                                         adapted[s].content)
                      ELSE adapted
             news == IF new_statement_content # None
                     THEN Append(sys.new_statements, <<cycle, Len(stmts)>>)
                     ELSE sys.new_statements
             metrics == CountAdaptation(sys.cycle_metrics, out.primitive,
                                        new_statement_content)
         IN  AdaptPrimitivesConsuming([statements |-> stmts, new_statements |-> news,
                                       cycle_metrics |-> metrics],
                                      s, j + 1, feedback_score, context, cycle, rnd)

\* the for loop over statement.system_primitives, from primitive j on, for the
\* statement with id s; sys holds the statements, new_statements and
\* cycle_metrics so far, rnd[j] the random draws of the j-th adapt call
RECURSIVE AdaptPrimitives(_, _, _, _, _, _, _)
AdaptPrimitives(sys, s, j, feedback_score, context, cycle, rnd) ==
    IF j > Len(sys.statements[s].system_primitives) THEN sys
    ELSE LET primitive == sys.statements[s].system_primitives[j]
             out == adapt(primitive, feedback_score, context,
                          rnd[j].u, rnd[j].choice)
             adapted == [sys.statements EXCEPT ![s].system_primitives[j] = out.primitive]
             new_statement_content == out.result
             stmts == IF new_statement_content # None
                      THEN add_statement(adapted, new_statement_content,
                                         adapted[s].content)
                      ELSE adapted
             news == IF new_statement_content # None
                     THEN Append(sys.new_statements, <<cycle, Len(stmts)>>)
                     ELSE sys.new_statements
             metrics == CountAdaptation(sys.cycle_metrics, out.primitive,
                                        new_statement_content)
         IN  AdaptPrimitives([statements |-> stmts, new_statements |-> news,
                              cycle_metrics |-> metrics],
                             s, j + 1, feedback_score, context, cycle, rnd)

CycleContextNext(state, cycle) == [system_state |-> state, cycle |-> cycle + 1]

\* the context process_feedback_cycle hands to adapt
CycleContext(state, cycle) == [system_state |-> state, cycle |-> cycle]

\* if abs(feedback_score) > self.feedback_threshold
Triggers(feedback_score) == Abs(feedback_score) > feedback_threshold

NewStabilityUnclamped(stability, metrics) ==
    IF metrics.processed_statements > 0
    THEN Mul(stability, One - Mul(100, Abs(metrics.average_feedback)))
    ELSE stability

NewStabilitySigned(stability, metrics) ==
    IF metrics.processed_statements > 0
    THEN Max(100, Min(One, Mul(stability, One - Mul(100, metrics.average_feedback))))
    ELSE stability

NewComplexityFloored(complexity, metrics, n_statements) ==
    LET complexity_factor == (Max(1, metrics.adaptations) * One) \div Max(1, n_statements)
    IN  Mul(complexity, 900) + Mul(complexity_factor, 100)

\* _update_system_state(cycle_metrics) with n_statements = len(self.statements)
NewStability(stability, metrics) ==
    IF metrics.processed_statements > 0
    THEN LET feedback_impact == Abs(metrics.average_feedback)
         IN  Max(100, Min(One, Mul(stability, One - Mul(100, feedback_impact))))
    ELSE stability

NewComplexityOverProcessed(complexity, metrics, n_statements) ==
    LET complexity_factor ==
            (metrics.adaptations * One) \div Max(1, metrics.processed_statements)
    IN  Mul(complexity, 900) + Mul(complexity_factor, 100)

NewComplexity(complexity, metrics, n_statements) ==
    LET complexity_factor == (metrics.adaptations * One) \div Max(1, n_statements)
    IN  Mul(complexity, 900) + Mul(complexity_factor, 100)

NewAdaptationRate(metrics) ==
    (metrics.adaptations * One) \div Max(1, metrics.processed_statements)

update_system_state(state, metrics, n_statements) ==
    [stability |-> NewStability(state.stability, metrics),
     complexity |-> NewComplexity(state.complexity, metrics, n_statements),
     adaptation_rate |-> NewAdaptationRate(metrics)]

----------------------------------------------------------------------------
(* The alternate controller of src/Cybernetics.py.  An Optional field is a  *)
(* sequence: <<>> for None, <<x>> for the object x.  Constructivity.factors *)
(* and evaluate() are left out: process_cycle discards the value.          *)

\* Statement(content, system_primitives)
AltStatement(content, system_primitives) ==
    [content |-> content, system_primitives |-> system_primitives]

\* SystemPrimitive(name, description, constructivity)
AltPrimitive(name, constructivity) == [name |-> name, constructivity |-> constructivity]

\* Constructivity(level, qualification)
Constructivity(level, qualification) ==
    [level |-> level, qualification |-> qualification]

\* Qualification(criteria, semantic_correlation, threshold, scores)
Qualification(semantic_correlation, threshold, scores) ==
    [semantic_correlation |-> semantic_correlation, threshold |-> threshold,
     scores |-> scores]

\* SemanticCorrelation(correlation_strength, manifest_purpose, correlations)
SemanticCorrelation(purpose, correlations) ==
    [manifest_purpose |-> purpose, correlations |-> correlations]

\* ManifestPurpose(purpose, statements, objectives); objectives in dict order
ManifestPurpose(purpose, objectives) == [purpose |-> purpose, objectives |-> objectives]

RECURSIVE SumValues(_)
SumValues(values) ==
    IF values = <<>> THEN 0 ELSE Head(values) + SumValues(Tail(values))

\* sum(d.values()) / len(d)
Average(values) == SumValues(values) \div Len(values)

\* Qualification.qualify(constructivity)
qualify(qualification, constructivity) ==
    /\ Average(qualification.scores) >= qualification.threshold
    /\ constructivity.level >= qualification.threshold

\* SemanticCorrelation.correlate()
correlate(correlation) == Average(correlation.correlations)

\* f"Implement {objective.replace('_', ' ')} with priority {priority}"
ImplementText(objective, priority) ==
    CASE objective = "system_reliability" /\ priority = 950 ->
            "Implement system reliability with priority 0.95"
      [] objective = "performance_optimization" /\ priority = 900 ->
            "Implement performance optimization with priority 0.9"
      [] objective = "security_hardening" /\ priority = 850 ->
            "Implement security hardening with priority 0.85"
      [] objective = "system_optimization" /\ priority = 800 ->
            "Implement system optimization with priority 0.8"
      [] objective = "reliability_improvement" /\ priority = 850 ->
            "Implement reliability improvement with priority 0.85"

RECURSIVE generate_statements_at_least(_, _)
generate_statements_at_least(purpose, k) ==
    IF k > Len(purpose.objectives) THEN <<>>
    ELSE (IF purpose.objectives[k].priority >= 800
          THEN << AltStatement(ImplementText(purpose.objectives[k].objective,
                                             purpose.objectives[k].priority), <<>>) >>
          ELSE <<>>)
         \o generate_statements_at_least(purpose, k + 1)

\* ManifestPurpose.generate_statements(), from objective k on
RECURSIVE generate_statements(_, _)
generate_statements(purpose, k) ==
    IF k > Len(purpose.objectives) THEN <<>>
    ELSE (IF purpose.objectives[k].priority > 800
          THEN << AltStatement(ImplementText(purpose.objectives[k].objective,
                                             purpose.objectives[k].priority), <<>>) >>
          ELSE <<>>)
         \o generate_statements(purpose, k + 1)

\* Statement.generate_primitives()
generate_primitives(statement) ==
    IF statement.system_primitives # <<>> THEN statement
    ELSE [statement EXCEPT !.system_primitives =
            (IF Contains("efficiency", statement.content)
             THEN << AltPrimitive("Efficiency_Metric",
                                  << Constructivity(850, << Qualification(<<>>, 700,
                                                                          <<800, 800>>) >>) >>) >>
             ELSE <<>>)
            \o
            (IF Contains("security", statement.content)
             THEN << AltPrimitive("Security_Control",
                                  << Constructivity(950, << Qualification(<<>>, 700,
                                                                          <<800, 800>>) >>) >>) >>
             ELSE <<>>)]

\* CyberneticSystem.add_statement(statement): self.statements afterwards
alt_add_statement(stmts, statement) == Append(stmts, generate_primitives(statement))

AltInitialCycleMetrics ==
    [processed_statements |-> 0, generated_statements |-> 0, average_correlation |-> 0]

\* the for loop of process_cycle over statement.system_primitives, from
\* primitive j on, for the statement at index s; sys holds self.statements,
\* self.manifest_purpose and cycle_metrics so far
RECURSIVE ProcessPrimitives(_, _, _)
ProcessPrimitives(sys, s, j) ==
    IF j > Len(sys.statements[s].system_primitives) THEN sys
    ELSE LET primitive == sys.statements[s].system_primitives[j]
             qualified ==
                 /\ primitive.constructivity # <<>>
                 /\ primitive.constructivity[1].qualification # <<>>
                 /\ qualify(primitive.constructivity[1].qualification[1],
                            primitive.constructivity[1])
                 /\ primitive.constructivity[1].qualification[1].semantic_correlation # <<>>
         IN  IF ~qualified THEN ProcessPrimitives(sys, s, j + 1)
             ELSE LET correlation ==
                          primitive.constructivity[1].qualification[1].semantic_correlation[1]
                      correlated ==
                          [sys EXCEPT !.cycle_metrics.average_correlation =
                                          @ + correlate(correlation)]
                  IN  IF correlation.manifest_purpose = <<>>
                      THEN ProcessPrimitives(correlated, s, j + 1)
                      ELSE LET generated ==
                                   generate_statements(correlation.manifest_purpose[1], 1)
                           IN  ProcessPrimitives(
                                  [statements |-> correlated.statements \o generated,
                                   manifest_purpose |-> correlation.manifest_purpose,
                                   cycle_metrics |->
                                      [correlated.cycle_metrics EXCEPT
                                          !.generated_statements =
                                              @ + Len(generated)]],
                                  s, j + 1)

----------------------------------------------------------------------------
(* Bounds and inputs of the model *)

MaxAdded == 2       \* add_statement calls made by the caller
MaxCycles == 2      \* process_feedback_cycle calls
MaxFeedback == 2    \* add_feedback calls
DrawStep == 250     \* spacing of the modelled values of random.random()
MaxAdapt == 2       \* adapting calls on the stand-alone primitive
MaxRepeat == 9      \* adapting calls of one sign on the stand-alone primitive
MaxRules == 3       \* rules of the stand-alone generator

Contents ==
    {"Improve system efficiency through resource optimization",
     "Enhance security protocols for data protection",
     "Enable adaptive responses to system changes"}

\* (feedback_type, strength) pairs handed to add_feedback
\* values of random.random(), and of the index random.choice draws
Units == {k * DrawStep : k \in 0..(One \div DrawStep)} \cup {One}
Choices == 1..2

PrimitiveNames ==
    {"Efficiency_Primitive", "Security_Primitive", "Reliability_Primitive",
     "Adaptation_Primitive", "Generic_Primitive"}

\* feedback values handed to adapt directly
Feedbacks == {-12000, -800, -700, 500, 700, 701, 12000}
PositiveFeedbacks == {701, 1500}
NegativeFeedbacks == {-800, -12000}

\* contexts handed to adapt directly
Contexts ==
    {[system_state |-> [stability |-> st, complexity |-> 0, adaptation_rate |-> 0],
      cycle |-> 0] : st \in {One, 700, 500}}

\* rules added to the stand-alone generator
UnconditionalRule ==
    [name |-> "unconditional", conditions |-> <<>>,
     templates |-> << "Enable adaptive responses to system changes" >>,
     weight |-> 500]

RulePool ==
    {create_generator("Efficiency_Primitive")[1],
     create_generator("Generic_Primitive")[1],
     create_generator("Security_Primitive")[2],
     create_generator("Generic_Primitive")[4],
     UnconditionalRule}

\* contexts handed to the stand-alone generator, and its values of random.random()
GenerationContexts ==
    {[feedback_score |-> 800, system_state |-> InitialSystemState,
      adaptation_rate |-> 0, cycle |-> 0],
     [feedback_score |-> -800, system_state |-> InitialSystemState,
      adaptation_rate |-> 0, cycle |-> 0],
     [feedback_score |-> -800,
      system_state |-> [stability |-> 500, complexity |-> 0, adaptation_rate |-> 0],
      adaptation_rate |-> 600, cycle |-> 1]}
FineUnits == {k * (DrawStep \div 2) : k \in 0..(One \div (DrawStep \div 2))} \cup {One}

FeedbackInputs ==
    {<<"positive", 650>>, <<"positive", 800>>, <<"negative", 800>>,
     <<"negative", 12000>>, <<"neutral", 800>>}


MaxAltAdded == 2        \* add_statement calls on the alternate controller
MaxAltStatements == 6   \* process_cycle is entered only below this many statements

\* contents handed to the alternate add_statement
AltContents ==
    {"Optimize system efficiency for resource management",
     "Implement enhanced security protocols for data protection",
     "Establish monitoring systems for performance metrics"}

\* the manifest purpose of create_example_system, and one with an objective
\* whose priority is exactly 0.8
ExamplePurpose ==
    ManifestPurpose("Build a robust and efficient cybernetic system",
                    << [objective |-> "system_reliability", priority |-> 950],
                       [objective |-> "performance_optimization", priority |-> 900],
                       [objective |-> "security_hardening", priority |-> 850] >>)
BoundaryPurpose ==
    ManifestPurpose("Keep the system optimal",
                    << [objective |-> "system_optimization", priority |-> 800],
                       [objective |-> "reliability_improvement", priority |-> 850] >>)

\* the primitive of create_example_system, with the manifest purpose purpose
QualifyingPrimitive(purpose) ==
    AltPrimitive("Primitive_0",
                 << Constructivity(900,
                       << Qualification(<< SemanticCorrelation(<<purpose>>,
                                                               <<900, 850, 950>>) >>,
                                        750, <<900, 850, 950>>) >>) >>)

\* the same with a level below the qualification threshold
UnqualifiedPrimitive ==
    AltPrimitive("Primitive_1",
                 << Constructivity(700,
                       << Qualification(<< SemanticCorrelation(<<ExamplePurpose>>,
                                                               <<900, 850, 950>>) >>,
                                        750, <<900, 850, 950>>) >>) >>)

\* the same with a semantic correlation that has no manifest purpose
PurposelessPrimitive ==
    AltPrimitive("Primitive_2",
                 << Constructivity(900,
                       << Qualification(<< SemanticCorrelation(<<>>, <<900, 850, 950>>) >>,
                                        750, <<900, 850, 950>>) >>) >>)

\* SystemPrimitive(name, description): no constructivity
BarePrimitive == AltPrimitive("Primitive_3", <<>>)

\* primitive lists of the statements handed to the alternate add_statement
AltPrimitiveLists ==
    {<<>>, <<QualifyingPrimitive(ExamplePurpose)>>, <<QualifyingPrimitive(BoundaryPurpose)>>,
     <<UnqualifiedPrimitive>>, <<PurposelessPrimitive>>, <<BarePrimitive>>,
     <<QualifyingPrimitive(BoundaryPurpose), QualifyingPrimitive(ExamplePurpose)>>}

----------------------------------------------------------------------------
(* The controller: add_statement, Statement.add_feedback and                *)
(* process_feedback_cycle, the latter one step per loop iteration           *)

InitController ==
    /\ statements = <<>>
    /\ adaptation_cycles = 0
    /\ system_state = InitialSystemState
    /\ new_statements = <<>>
    /\ pc = "idle"
    /\ snapshot = <<>>
    /\ idx = 0
    /\ total_feedback = 0
    /\ cycle_metrics = InitialCycleMetrics

InitPrimitive ==
    /\ prim = SystemPrimitive("Generic_Primitive")
    /\ last_call = NoCall

InitGenerator ==
    /\ rules = <<>>
    /\ gen_call = NoCall

\* CyberneticSystem() of src/Cybernetics.py
InitAlternate ==
    /\ alt_statements = <<>>
    /\ manifest_purpose = <<>>
    /\ system_metrics = [total_statements |-> 0, average_constructivity |-> 0,
                         system_health |-> One]
    /\ alt_pc = "idle"
    /\ position = 0
    /\ alt_cycle_metrics = AltInitialCycleMetrics

Init == InitController /\ InitPrimitive /\ InitGenerator /\ InitAlternate

Added == Cardinality({s \in 1..Len(statements) : statements[s].generated_from = None})

AddStatement(content) ==
    /\ pc = "idle"
    /\ Added < MaxAdded
    /\ statements' = add_statement(statements, content, None)
    /\ UNCHANGED <<adaptation_cycles, system_state, new_statements, pc, snapshot, idx,
                   total_feedback, cycle_metrics, primVars, genVars, altVars>>

RECURSIVE FeedbackCount(_, _)
FeedbackCount(stmts, s) ==
    IF s > Len(stmts) THEN 0
    ELSE Len(stmts[s].feedback_history) + FeedbackCount(stmts, s + 1)

AddFeedback(s, feedback_type, strength) ==
    /\ pc = "idle"
    /\ FeedbackCount(statements, 1) < MaxFeedback
    /\ statements' = [statements EXCEPT ![s] = add_feedback(@, feedback_type, strength)]
    /\ UNCHANGED <<adaptation_cycles, system_state, new_statements, pc, snapshot, idx,
                   total_feedback, cycle_metrics, primVars, genVars, altVars>>

LiveList(copy, live) == [i \in 1..Len(live) |-> i]

\* the list the for loop of process_feedback_cycle walks: the copy made at entry
IterationList(copy, live) == copy

\* entry of process_feedback_cycle: cycle_metrics, total_feedback and the copy
BeginCycle ==
    /\ pc = "idle"
    /\ adaptation_cycles < MaxCycles
    /\ cycle_metrics' = InitialCycleMetrics
    /\ total_feedback' = 0
    /\ snapshot' = [i \in 1..Len(statements) |-> i]
    /\ idx' = 0
    /\ pc' = "loop"
    /\ UNCHANGED <<statements, adaptation_cycles, system_state, new_statements,
                   primVars, genVars, altVars>>

AccumulateTriggering(total, feedback_score) ==
    IF Abs(feedback_score) > feedback_threshold THEN total + feedback_score ELSE total

\* total_feedback += feedback_score
AccumulateFeedback(total, feedback_score) == total + feedback_score

\* one iteration of the loop over the copy
ProcessStatement ==
    /\ pc = "loop"
    /\ idx < Len(IterationList(snapshot, statements))
    /\ LET s == IterationList(snapshot, statements)[idx + 1]
           feedback_score == get_feedback_score(statements[s].feedback_history)
           context == CycleContext(system_state, adaptation_cycles)
           sys == [statements |-> statements, new_statements |-> new_statements,
                   cycle_metrics |-> cycle_metrics]
       IN  /\ IF Triggers(feedback_score)
              THEN \E rnd \in [1..Len(statements[s].system_primitives) ->
                                 [u : Units, choice : Choices]] :
                     LET after == AdaptPrimitives(sys, s, 1, feedback_score, context,
                                                  adaptation_cycles, rnd)
                     IN  /\ statements' = after.statements
                         /\ new_statements' = after.new_statements
                         /\ cycle_metrics' = [after.cycle_metrics EXCEPT
                                                 !.processed_statements = @ + 1]
              ELSE /\ cycle_metrics' = [cycle_metrics EXCEPT
                                           !.processed_statements = @ + 1]
                   /\ UNCHANGED <<statements, new_statements>>
           /\ total_feedback' = AccumulateFeedback(total_feedback, feedback_score)
    /\ idx' = idx + 1
    /\ UNCHANGED <<adaptation_cycles, system_state, pc, snapshot, primVars, genVars,
                   altVars>>

NextAdaptationCycleStuck(cycle) == cycle

\* self.adaptation_cycles += 1
NextAdaptationCycle(cycle) == cycle + 1

\* after the loop: the average, _update_system_state, the cycle counter, return
EndCycle ==
    /\ pc = "loop"
    /\ idx = Len(IterationList(snapshot, statements))
    /\ LET returned ==
               IF cycle_metrics.processed_statements > 0
               THEN [cycle_metrics EXCEPT !.average_feedback =
                        total_feedback \div cycle_metrics.processed_statements]
               ELSE cycle_metrics
       IN  /\ cycle_metrics' = returned
           /\ system_state' = update_system_state(system_state, returned, Len(statements))
    /\ adaptation_cycles' = NextAdaptationCycle(adaptation_cycles)
    /\ pc' = "idle"
    /\ UNCHANGED <<statements, new_statements, snapshot, idx, total_feedback,
                   primVars, genVars, altVars>>

----------------------------------------------------------------------------
(* A primitive driven directly: SystemPrimitive(name, description), adapt  *)

InitAdapt ==
    /\ InitController
    /\ prim \in {SystemPrimitive(name) : name \in PrimitiveNames}
    /\ last_call = NoCall
    /\ InitGenerator
    /\ InitAlternate

Call(feedback, context, u, choice) ==
    LET out == adapt(prim, feedback, context, u, choice)
    IN  /\ prim' = out.primitive
        /\ last_call' = [feedback |-> feedback, context |-> context,
                         result |-> out.result, generated |-> out.generated]
        /\ UNCHANGED <<controllerVars, genVars, altVars>>

Adapt(feedback, context, u, choice) ==
    /\ Len(prim.adaptation_history) < MaxAdapt
    /\ Call(feedback, context, u, choice)

NextAdapt ==
    \E feedback \in Feedbacks, context \in Contexts, u \in Units, choice \in Choices :
        Adapt(feedback, context, u, choice)

SpecAdapt == InitAdapt /\ [][NextAdapt]_vars

\* repeated adapting calls with feedback of one sign, from a fresh primitive
InitRepeat ==
    /\ InitController
    /\ prim \in {SystemPrimitive("Efficiency_Primitive"),
                 SystemPrimitive("Generic_Primitive")}
    /\ last_call = NoCall
    /\ InitGenerator
    /\ InitAlternate

OnlyPositive(p) ==
    \A i \in 1..Len(p.adaptation_history) : p.adaptation_history[i].feedback > 0
OnlyNegative(p) ==
    \A i \in 1..Len(p.adaptation_history) : p.adaptation_history[i].feedback < 0

AdaptPositive(feedback, context, u, choice) ==
    /\ Len(prim.adaptation_history) < MaxRepeat
    /\ OnlyPositive(prim)
    /\ Call(feedback, context, u, choice)

AdaptNegative(feedback, context, u, choice) ==
    /\ Len(prim.adaptation_history) < MaxRepeat
    /\ OnlyNegative(prim)
    /\ Call(feedback, context, u, choice)

NextRepeat ==
    \/ \E feedback \in PositiveFeedbacks, u \in Units, choice \in Choices :
          AdaptPositive(feedback, [system_state |-> InitialSystemState, cycle |-> 0],
                        u, choice)
    \/ \E feedback \in NegativeFeedbacks, u \in Units, choice \in Choices :
          AdaptNegative(feedback, [system_state |-> InitialSystemState, cycle |-> 0],
                        u, choice)

SpecRepeat == InitRepeat /\ [][NextRepeat]_vars

----------------------------------------------------------------------------
(* A generator driven directly: add_rule, generate *)

\* self.rules.append(rule)
add_rule(rs, rule) == Append(rs, rule)

AddRule(rule) ==
    /\ Len(rules) < MaxRules
    /\ rules' = add_rule(rules, rule)
    /\ UNCHANGED <<controllerVars, primVars, gen_call, altVars>>

Generate(context, u, choice) ==
    /\ gen_call' = [rules |-> rules, context |-> context, u |-> u,
                    result |-> generate(rules, context, u, choice)]
    /\ UNCHANGED <<controllerVars, primVars, rules, altVars>>

NextGenerate ==
    \/ \E rule \in RulePool : AddRule(rule)
    \/ \E context \in GenerationContexts, u \in FineUnits, choice \in Choices :
          Generate(context, u, choice)

SpecGenerate == Init /\ [][NextGenerate]_vars

----------------------------------------------------------------------------
(* The alternate controller: add_statement and process_cycle, the latter   *)
(* one step per iteration of its outer loop                                *)

AltAddStatement(content, system_primitives) ==
    /\ alt_pc = "idle"
    /\ system_metrics.total_statements < MaxAltAdded
    /\ alt_statements' =
          alt_add_statement(alt_statements, AltStatement(content, system_primitives))
    /\ system_metrics' = [system_metrics EXCEPT !.total_statements = @ + 1]
    /\ UNCHANGED <<manifest_purpose, alt_pc, position, alt_cycle_metrics,
                   controllerVars, primVars, genVars>>

\* process_cycle up to the start of the loop
AltBeginCycle ==
    /\ alt_pc = "idle"
    /\ Len(alt_statements) < MaxAltStatements
    /\ alt_cycle_metrics' = AltInitialCycleMetrics
    /\ position' = 0
    /\ alt_pc' = "loop"
    /\ UNCHANGED <<alt_statements, manifest_purpose, system_metrics,
                   controllerVars, primVars, genVars>>

\* one iteration of for statement in self.statements: the iterator yields the
\* element at its index as long as the index is inside the list as it is now
AltProcessStatement ==
    /\ alt_pc = "loop"
    /\ position < Len(alt_statements)
    /\ LET after == ProcessPrimitives([statements |-> alt_statements,
                                       manifest_purpose |-> manifest_purpose,
                                       cycle_metrics |-> alt_cycle_metrics],
                                      position + 1, 1)
       IN  /\ alt_statements' = after.statements
           /\ manifest_purpose' = after.manifest_purpose
           /\ alt_cycle_metrics' = [after.cycle_metrics EXCEPT
                                       !.processed_statements = @ + 1]
    /\ position' = position + 1
    /\ UNCHANGED <<system_metrics, alt_pc, controllerVars, primVars, genVars>>

\* after the loop: the average, return
AltEndCycle ==
    /\ alt_pc = "loop"
    /\ position = Len(alt_statements)
    /\ alt_cycle_metrics' =
          IF alt_cycle_metrics.processed_statements > 0
          THEN [alt_cycle_metrics EXCEPT !.average_correlation =
                   @ \div alt_cycle_metrics.processed_statements]
          ELSE alt_cycle_metrics
    /\ alt_pc' = "idle"
    /\ UNCHANGED <<alt_statements, manifest_purpose, system_metrics, position,
                   controllerVars, primVars, genVars>>

NextAlternate ==
    \/ \E content \in AltContents, system_primitives \in AltPrimitiveLists :
          AltAddStatement(content, system_primitives)
    \/ AltBeginCycle
    \/ AltProcessStatement
    \/ AltEndCycle

\* process_cycle runs to its end once called: the loop steps and the return
\* are taken whenever they can be
SpecAlternate ==
    /\ Init
    /\ [][NextAlternate]_vars
    /\ WF_vars(AltProcessStatement)
    /\ WF_vars(AltEndCycle)

----------------------------------------------------------------------------

Next ==
    \/ \E content \in Contents : AddStatement(content)
    \/ \E s \in 1..Len(statements), fb \in FeedbackInputs : AddFeedback(s, fb[1], fb[2])
    \/ BeginCycle
    \/ ProcessStatement
    \/ EndCycle

Spec == Init /\ [][Next]_vars

----------------------------------------------------------------------------
(* Properties *)

AnyApplicable(rs, context) == \E i \in 1..Len(rs) : should_apply(rs[i], context)

\* C1: generate returns None if and only if no rule of the list has all of its
\* conditions true on the context; with an applicable rule, every draw selects
\* a rule and a statement is returned.
C1_NoneIffNoRuleApplies ==
    gen_call # NoCall =>
        (gen_call.result = None <=> ~AnyApplicable(gen_call.rules, gen_call.context))

\* a statement returned on the largest draw, with two rules applicable and one not
C1_Witness ==
    /\ gen_call # NoCall
    /\ gen_call.result # None
    /\ gen_call.u = One
    /\ Len(applicable_rules(gen_call.rules, gen_call.context)) = 2
    /\ Len(gen_call.rules) = 3

ThreeMetrics == {"reliability", "complexity", "maintainability"}

\* C2: an adapt call with |feedback| <= adaptation_threshold changes nothing of
\* the primitive (history, metrics), returns None and does not reach the generator.
C2_NoOpAtOrBelowThreshold ==
    [][ (last_call' # NoCall /\ Abs(last_call'.feedback) <= adaptation_threshold) =>
            /\ prim' = prim
            /\ last_call'.result = None
            /\ ~last_call'.generated ]_vars

\* a call at the threshold itself, on a primitive that has adapted before
C2_Witness ==
    /\ last_call # NoCall
    /\ Abs(last_call.feedback) = adaptation_threshold
    /\ last_call.result = None
    /\ Len(prim.adaptation_history) = 1

\* C3: reliability, complexity and maintainability stay within [0, 1] under
\* adapt calls with feedback of any sign and magnitude.
C3_ThreeMetricsInUnitInterval ==
    \A metric \in ThreeMetrics : prim.metrics[metric] \in 0..One

\* both clamps have acted: up to 1.0 on feedback 12.0, then down to 0.0 on -12.0
C3_Witness ==
    /\ Len(prim.adaptation_history) = 2
    /\ prim.adaptation_history[1].feedback = 12000
    /\ prim.adaptation_history[2].previous_metrics.complexity = One
    /\ prim.adaptation_history[2].feedback = -12000
    /\ prim.metrics.complexity = 0

Saturated(p) == \A metric \in ThreeMetrics : p.metrics[metric] = One

\* C4: from a fresh primitive, eight adapting calls with positive feedback bring
\* reliability, complexity and maintainability to exactly 1.0, where further
\* positive adapting calls keep them; under adapting calls with negative
\* feedback none of the three ever increases.
C4_SaturatesAndDecays ==
    /\ [](OnlyPositive(prim) /\ Len(prim.adaptation_history) >= 8 => Saturated(prim))
    /\ [][ (last_call'.feedback > 0 /\ Saturated(prim)) => Saturated(prim') ]_vars
    /\ [][ last_call'.feedback < 0 =>
              \A metric \in ThreeMetrics : prim'.metrics[metric] <= prim.metrics[metric] ]_vars

\* saturation reached by the weakest adapting feedback only, and kept afterwards
C4_Witness ==
    /\ Len(prim.adaptation_history) = 9
    /\ \A i \in 1..9 : prim.adaptation_history[i].feedback = 701
    /\ prim.adaptation_history[8].previous_metrics.complexity < One
    /\ prim.adaptation_history[9].previous_metrics.complexity = One
    /\ Saturated(prim)

\* C5: every entry of the metrics mapping, adaptation_rate included, is in [0, 1].
C5_AllMetricsInUnitInterval ==
    \A metric \in DOMAIN prim.metrics : prim.metrics[metric] \in 0..One

\* the step on which process_feedback_cycle returns
Returns == pc = "loop" /\ pc' = "idle"

\* C6: process_feedback_cycle on a controller without statements returns
\* processed_statements 0, adaptations 0 and average_feedback 0.0 and leaves
\* system_state as it was.
C6_EmptyCycleChangesNothing ==
    [][ (Returns /\ statements = <<>>) =>
            /\ cycle_metrics'.processed_statements = 0
            /\ cycle_metrics'.adaptations = 0
            /\ cycle_metrics'.average_feedback = 0
            /\ system_state' = system_state ]_vars

\* every call allowed has been made on a controller that never held a statement
C6_Witness ==
    /\ pc = "idle"
    /\ adaptation_cycles = MaxCycles
    /\ statements = <<>>
    /\ cycle_metrics.processed_statements = 0

NeverAdapted(statement) ==
    \A j \in 1..Len(statement.system_primitives) :
        statement.system_primitives[j].adaptation_history = <<>>

\* C7: process_feedback_cycle walks the copy of the collection made at entry:
\* the copy holds the statements present at entry and does not change, each
\* iteration scores the next statement of the copy, a statement appended
\* during the call is not adapted in it, the loop ends after as many
\* iterations as the copy has entries, and processed_statements is that number.
C7_IteratesSnapshot ==
    /\ [](pc = "loop" =>
            /\ idx <= Len(snapshot)
            /\ cycle_metrics.processed_statements = idx
            /\ Len(snapshot) <= Len(statements)
            /\ \A k \in 1..Len(snapshot) : snapshot[k] = k
            /\ \A s \in (Len(snapshot) + 1)..Len(statements) : NeverAdapted(statements[s]))
    /\ [][ (pc = "idle" /\ pc' = "loop") => Len(snapshot') = Len(statements) ]_vars
    /\ [][ (pc = "loop" /\ pc' = "loop") =>
              /\ snapshot' = snapshot
              /\ idx' = idx + 1
              /\ idx' <= Len(snapshot)
              /\ total_feedback' = total_feedback +
                    get_feedback_score(statements[snapshot[idx']].feedback_history) ]_vars
    /\ [][ (pc = "loop" /\ idx = Len(snapshot)) => Returns ]_vars
    /\ [][ Returns => cycle_metrics'.processed_statements = Len(snapshot) ]_vars

\* a call that found two statements, appended two more and processed two
C7_Witness ==
    /\ pc = "idle"
    /\ adaptation_cycles = 1
    /\ cycle_metrics.processed_statements = 2
    /\ Len(statements) = 4

\* C8: system_state starts as {1.0, 0.0, 0.0} and always has stability in
\* [0.1, 1.0], complexity >= 0 and adaptation_rate in [0, 1].
C8_SystemStateRanges ==
    /\ adaptation_cycles = 0 => system_state = InitialSystemState
    /\ system_state.stability \in 100..One
    /\ system_state.complexity >= 0
    /\ system_state.adaptation_rate \in 0..One

\* stability driven down to its floor, with every processed statement adapted
C8_Witness ==
    /\ system_state.stability = 100
    /\ system_state.adaptation_rate = One
    /\ system_state.complexity > 0

\* C9: stability never increases, whatever the sign of average_feedback, and a
\* cycle whose average_feedback is 0 or that processed no statement leaves it as
\* it was.
C9_StabilityNeverIncreases ==
    [][ /\ system_state'.stability <= system_state.stability
        /\ (Returns /\ (\/ cycle_metrics'.average_feedback = 0
                        \/ cycle_metrics'.processed_statements = 0)) =>
               system_state'.stability = system_state.stability ]_vars

\* a second cycle, of negative average feedback, lowered a stability that a
\* first cycle had already lowered
C9_Witness ==
    /\ pc = "idle"
    /\ adaptation_cycles = 2
    /\ cycle_metrics.average_feedback < 0
    /\ system_state.stability \in 101..899

\* the number of (statement, primitive) pairs of the copy whose statement has
\* |feedback score| > feedback_threshold
RECURSIVE TriggeringPairs(_, _, _)
TriggeringPairs(stmts, snap, k) ==
    IF k > Len(snap) THEN 0
    ELSE (IF Abs(get_feedback_score(stmts[snap[k]].feedback_history)) > feedback_threshold
          THEN Len(stmts[snap[k]].system_primitives) ELSE 0)
         + TriggeringPairs(stmts, snap, k + 1)

\* C10: the adaptations count returned is the number of (snapshot statement,
\* primitive) pairs whose statement has |feedback score| > feedback_threshold,
\* whether or not adapt returned text.
C10_AdaptationsCountsTriggeringPairs ==
    [][ Returns => cycle_metrics'.adaptations = TriggeringPairs(statements, snapshot, 1) ]_vars

\* two statements counted, one below and one above adaptation_threshold, with
\* no text returned for either
C10_Witness ==
    /\ pc = "idle"
    /\ adaptation_cycles = 1
    /\ cycle_metrics.adaptations = 2
    /\ cycle_metrics.processed_statements = 2
    /\ new_statements = <<>>
    /\ \E s \in 1..2 : statements[s].system_primitives[1].adaptation_history = <<>>
    /\ \E s \in 1..2 : statements[s].system_primitives[1].adaptation_history # <<>>

\* the statement a loop iteration of process_feedback_cycle has just handled
Current == snapshot[idx']

\* C11: an adapt call of process_feedback_cycle that returns text appends one
\* Statement at the end of the collection, with that text as content and the
\* originating statement's content as generated_from, and appends (cycle index,
\* that statement) to new_statements; a call that returns None grows neither.
\* Both collections grow by the number of adapt calls that returned text.
C11_TextAppendsOneStatement ==
    /\ [][ (pc = "loop" /\ pc' = "loop" /\ idx' <= Len(snapshot)) =>
              IF Triggers(get_feedback_score(statements[Current].feedback_history))
              THEN \E u \in Units, choice \in Choices :
                     LET out == adapt(statements[Current].system_primitives[1],
                                      get_feedback_score(statements[Current].feedback_history),
                                      [system_state |-> system_state,
                                       cycle |-> adaptation_cycles],
                                      u, choice)
                     IN  /\ statements'[Current].system_primitives[1] = out.primitive
                         /\ IF out.result # None
                            THEN /\ Len(statements') = Len(statements) + 1
                                 /\ statements'[Len(statements')].content = out.result
                                 /\ statements'[Len(statements')].generated_from =
                                        statements[Current].content
                                 /\ statements'[Len(statements')].feedback_history = <<>>
                                 /\ new_statements' =
                                        Append(new_statements,
                                               <<adaptation_cycles, Len(statements')>>)
                            ELSE /\ Len(statements') = Len(statements)
                                 /\ new_statements' = new_statements
              ELSE statements' = statements /\ new_statements' = new_statements ]_vars
    /\ [][ ~(pc = "loop" /\ pc' = "loop") => new_statements' = new_statements ]_vars
    /\ [](Len(new_statements) =
            Cardinality({s \in 1..Len(statements) : statements[s].generated_from # None}))
    /\ [](pc = "loop" =>
            Len(statements) - Len(snapshot) =
            Cardinality({k \in 1..Len(new_statements) :
                            new_statements[k][1] = adaptation_cycles}))

\* in the second cycle, text returned for the second statement of the copy has
\* become the last statement, logged under cycle index 1
C11_Witness ==
    /\ pc = "loop"
    /\ adaptation_cycles = 1
    /\ idx = 2
    /\ Len(statements) = Len(snapshot) + 1
    /\ new_statements # <<>>
    /\ new_statements[Len(new_statements)] = <<1, Len(statements)>>
    /\ statements[Len(statements)].generated_from = statements[2].content
    /\ statements[1].content # statements[2].content

\* the score get_feedback_score must give a history of at most one entry
SingleEntryScore(history) ==
    IF history = <<>> THEN 0
    ELSE IF history[1][1] = "positive" THEN history[1][2]
    ELSE IF history[1][1] = "negative" THEN -history[1][2]
    ELSE 0

\* C12: get_feedback_score is 0.0 on an empty history and +strength, -strength
\* or 0 on a history of one POSITIVE, NEGATIVE or NEUTRAL entry, and the cycle
\* that calls it leaves every feedback_history as it was.
C12_ScoreOfShortHistories ==
    /\ [](\A s \in 1..Len(statements) :
            Len(statements[s].feedback_history) <= 1 =>
                get_feedback_score(statements[s].feedback_history) =
                    SingleEntryScore(statements[s].feedback_history))
    /\ [][ (pc = "loop" /\ pc' = "loop" /\ idx' <= Len(snapshot)) =>
              /\ total_feedback' - total_feedback =
                    get_feedback_score(statements[Current].feedback_history)
              /\ \A s \in 1..Len(statements) :
                    statements'[s].feedback_history = statements[s].feedback_history ]_vars

\* a cycle has scored one statement with the single entry (NEGATIVE, 0.8) and
\* one with (NEUTRAL, 0.8)
C12_Witness ==
    /\ pc = "loop"
    /\ idx = 2
    /\ statements[1].feedback_history = << <<"negative", 800>> >>
    /\ statements[2].feedback_history = << <<"neutral", 800>> >>
    /\ total_feedback = -800

\* the weight accumulated over the first k rules of rs
CumulativeWeight(rs, k) == SumWeights(SubSeq(rs, 1, k))

\* the first rule of rs, in order, whose cumulative weight is at least r
FirstReaching(rs, r) ==
    CHOOSE k \in 1..Len(rs) :
        /\ CumulativeWeight(rs, k) >= r
        /\ \A j \in 1..(k - 1) : CumulativeWeight(rs, j) < r

\* the draws r of [0, total), in steps of a tenth
DrawsBelow(total) == {100 * j : j \in 0..((total - 1) \div 100)}

\* C13: generate renders the first applicable rule, in insertion order, whose
\* cumulative weight is at least the draw r; the rule rendered is applicable, and
\* each applicable rule is the one selected for some r of [0, total_weight).
C13_SelectsFirstReachingDraw ==
    /\ gen_call # NoCall =>
          LET applicable == applicable_rules(gen_call.rules, gen_call.context)
              r == uniform(SumWeights(applicable), gen_call.u)
          IN  applicable # <<>> =>
                /\ \E t \in 1..Len(applicable[FirstReaching(applicable, r)].templates) :
                      gen_call.result = applicable[FirstReaching(applicable, r)].templates[t]
                /\ \E k \in 1..Len(gen_call.rules) :
                      /\ should_apply(gen_call.rules[k], gen_call.context)
                      /\ \E t \in 1..Len(gen_call.rules[k].templates) :
                            gen_call.result = gen_call.rules[k].templates[t]
    /\ \A context \in GenerationContexts :
          LET applicable == applicable_rules(rules, context)
          IN  /\ \A r \in DrawsBelow(SumWeights(applicable)) :
                    SelectFrom(applicable, 1, 0, r) = FirstReaching(applicable, r)
              /\ \A k \in 1..Len(applicable) :
                    \E r \in DrawsBelow(SumWeights(applicable)) :
                        SelectFrom(applicable, 1, 0, r) = k

\* three rules were applicable, the first did not reach the draw, and the
\* second was rendered
C13_Witness ==
    /\ gen_call # NoCall
    /\ Len(gen_call.rules) = 3
    /\ Len(applicable_rules(gen_call.rules, gen_call.context)) = 3
    /\ gen_call.rules[1] = create_generator("Security_Primitive")[2]
    /\ gen_call.rules[2] = UnconditionalRule
    /\ uniform(SumWeights(gen_call.rules), gen_call.u) > gen_call.rules[1].weight
    /\ gen_call.result = UnconditionalRule.templates[1]

\* the four hardcoded rules, stated on the name, the feedback, the caller's
\* stability and the adaptation_rate after the update
EfficiencyRuleApplies(name, feedback) ==
    Contains("efficiency", name) /\ feedback > 700
SecurityRuleApplies(name, stability) ==
    Contains("security", name) /\ stability < 800
ReliabilityRuleApplies(name, stability) ==
    Contains("reliability", name) \/ stability < 600
AdaptationRuleApplies(rate) == rate > 500

EfficiencyTexts == {create_generator("Efficiency_Primitive")[1].templates[t] : t \in 1..2}

\* C14: an adapt call with |feedback| > adaptation_threshold returns text exactly
\* when one of the four hardcoded rules applies (efficiency: name and
\* feedback > 0.7; security: name and stability < 0.8; reliability: name or
\* stability < 0.6; adaptation: updated adaptation_rate > 0.5), and the
\* efficiency texts come only from an "efficiency" primitive on feedback > 0.7.
C14_TextIffHardcodedRuleApplies ==
    (last_call # NoCall /\ last_call.generated) =>
        /\ last_call.result # None <=>
              \/ EfficiencyRuleApplies(prim.name, last_call.feedback)
              \/ SecurityRuleApplies(prim.name, last_call.context.system_state.stability)
              \/ ReliabilityRuleApplies(prim.name, last_call.context.system_state.stability)
              \/ AdaptationRuleApplies(prim.metrics.adaptation_rate)
        /\ last_call.result \in EfficiencyTexts =>
              EfficiencyRuleApplies(prim.name, last_call.feedback)

\* an "efficiency" primitive got an efficiency text on feedback just above 0.7
\* while no other rule applied
C14_Witness ==
    /\ last_call # NoCall
    /\ last_call.generated
    /\ prim.name = "Efficiency_Primitive"
    /\ last_call.feedback = 701
    /\ last_call.context.system_state.stability = One
    /\ prim.metrics.adaptation_rate <= 500
    /\ last_call.result \in EfficiencyTexts

\* C15: adaptation_history only grows, by one record per adapt call with
\* |feedback| > adaptation_threshold and by none otherwise; the record holds the
\* call's feedback and the four metrics as they were before the call's updates,
\* and the records already there stay as they were.
C15_HistoryAppendOnly ==
    /\ [](last_call = NoCall => prim.adaptation_history = <<>>)
    /\ [][ last_call' # NoCall =>
              IF Abs(last_call'.feedback) > adaptation_threshold
              THEN prim'.adaptation_history =
                      Append(prim.adaptation_history,
                             [feedback |-> last_call'.feedback,
                              context |-> last_call'.context,
                              previous_metrics |-> prim.metrics])
              ELSE prim'.adaptation_history = prim.adaptation_history ]_vars
    /\ [](\A k \in 1..Len(prim.adaptation_history) :
            /\ Abs(prim.adaptation_history[k].feedback) > adaptation_threshold
            /\ DOMAIN prim.adaptation_history[k].previous_metrics =
                  {"reliability", "complexity", "maintainability", "adaptation_rate"}
            /\ prim.adaptation_history[k].previous_metrics =
                  IF k = 1 THEN SystemPrimitive(prim.name).metrics
                  ELSE UpdatedMetrics(prim.adaptation_history[k - 1].previous_metrics,
                                      prim.adaptation_history[k - 1].feedback))

\* two adapting calls were made; the first record still holds the initial
\* metrics, the second the metrics between the calls
C15_Witness ==
    /\ Len(prim.adaptation_history) = 2
    /\ last_call # NoCall
    /\ last_call.generated
    /\ prim.adaptation_history[2].feedback = last_call.feedback
    /\ prim.adaptation_history[1].feedback # last_call.feedback
    /\ prim.adaptation_history[1].previous_metrics = SystemPrimitive(prim.name).metrics
    /\ prim.adaptation_history[2].previous_metrics # prim.adaptation_history[1].previous_metrics
    /\ prim.metrics # prim.adaptation_history[2].previous_metrics

\* the context the generator must be given by a call adapt(feedback, context)
\* that leaves the adaptation_rate at rate
DerivedContext(feedback, context, rate) ==
    [feedback_score |-> feedback,
     system_state |-> context.system_state,
     adaptation_rate |-> rate,
     cycle |-> context.cycle]

\* C16: an adapt call with |feedback| > adaptation_threshold sets adaptation_rate
\* to old * 0.9 + |feedback| * 0.1 and evaluates the rules against that updated
\* rate, feedback_score = feedback and the caller's system_state and cycle.
C16_RulesSeeUpdatedRate ==
    [][ (last_call' # NoCall /\ Abs(last_call'.feedback) > adaptation_threshold) =>
           LET derived == DerivedContext(last_call'.feedback, last_call'.context,
                                         prim'.metrics.adaptation_rate)
           IN  /\ prim'.metrics.adaptation_rate =
                     Mul(prim.metrics.adaptation_rate, 900)
                         + Mul(Abs(last_call'.feedback), 100)
               /\ last_call'.result # None <=>
                     \E k \in 1..4 : should_apply(create_generator(prim.name)[k], derived)
               /\ \E u \in Units, choice \in Choices :
                     last_call'.result =
                         generate(create_generator(prim.name), derived, u, choice) ]_vars

\* the first call on a primitive with no keyword in its name, at full stability:
\* only the adaptation rule can apply, and it does because the rate went from
\* 0 to above 0.5 in this very call
C16_Witness ==
    /\ last_call # NoCall
    /\ last_call.generated
    /\ prim.name = "Generic_Primitive"
    /\ Len(prim.adaptation_history) = 1
    /\ prim.adaptation_history[1].previous_metrics.adaptation_rate = 0
    /\ last_call.context.system_state.stability = One
    /\ prim.metrics.adaptation_rate = 1200
    /\ last_call.result = "Deploy dynamic controls for improved system adaptability"

\* C17: when process_feedback_cycle returns, complexity is
\* old * 0.9 + 0.1 * (adaptations / max(1, N_after)), N_after being the number of
\* statements after the cycle with those it generated, and adaptation_rate is
\* adaptations / max(1, processed_statements), processed_statements being the
\* size of the snapshot.
C17_ComplexityAndRateAtReturn ==
    [][ Returns =>
           /\ cycle_metrics'.processed_statements = Len(snapshot)
           /\ cycle_metrics'.adaptations = cycle_metrics.adaptations
           /\ Len(statements') =
                 Len(snapshot)
                   + Cardinality({k \in 1..Len(new_statements) :
                                     new_statements[k][1] = adaptation_cycles})
           /\ system_state'.complexity =
                 Mul(system_state.complexity, 900)
                   + Mul((cycle_metrics'.adaptations * One) \div Max(1, Len(statements')),
                         100)
           /\ system_state'.adaptation_rate =
                 (cycle_metrics'.adaptations * One) \div Max(1, Len(snapshot)) ]_vars

\* the first cycle ran over two statements, adapted once and generated one
\* statement: complexity 0.1 * (1/3), adaptation_rate 1/2
C17_Witness ==
    /\ pc = "idle"
    /\ adaptation_cycles = 1
    /\ cycle_metrics.processed_statements = 2
    /\ cycle_metrics.adaptations = 1
    /\ Len(statements) = 3
    /\ system_state.complexity = 33
    /\ system_state.adaptation_rate = 500

\* the sum of the feedback scores of the statements copy[k..]
RECURSIVE SumOfScores(_, _, _)
SumOfScores(stmts, copy, k) ==
    IF k > Len(copy) THEN 0
    ELSE get_feedback_score(stmts[copy[k]].feedback_history)
            + SumOfScores(stmts, copy, k + 1)

\* C18: the average_feedback process_feedback_cycle returns is the mean of the
\* feedback scores of all statements of the snapshot, those at or below
\* feedback_threshold and those with an empty history (score 0.0) included, and
\* 0.0 when the snapshot is empty.
C18_AverageOverWholeSnapshot ==
    /\ [](pc = "loop" =>
            total_feedback = SumOfScores(statements, SubSeq(snapshot, 1, idx), 1))
    /\ [][ Returns =>
              cycle_metrics'.average_feedback =
                  IF snapshot = <<>> THEN 0
                  ELSE SumOfScores(statements', snapshot, 1) \div Len(snapshot) ]_vars

\* a cycle over one statement without feedback and one whose score stayed below
\* the threshold returned a non-zero average
C18_Witness ==
    /\ pc = "idle"
    /\ adaptation_cycles = 1
    /\ cycle_metrics.processed_statements = 2
    /\ cycle_metrics.adaptations = 0
    /\ statements[1].feedback_history = <<>>
    /\ get_feedback_score(statements[2].feedback_history) > 0
    /\ cycle_metrics.average_feedback =
          get_feedback_score(statements[2].feedback_history) \div 2

\* the signed contribution of history[i] under weight w
SignedContribution(history, i, w) ==
    IF history[i][1] = "positive" THEN Mul(history[i][2], w)
    ELSE IF history[i][1] = "negative" THEN -Mul(history[i][2], w)
    ELSE 0

\* the sums over the first k entries of history, entry i weighted exp((i-1)/n)
RECURSIVE Numerator(_, _)
Numerator(history, k) ==
    IF k = 0 THEN 0
    ELSE Numerator(history, k - 1)
            + SignedContribution(history, k, Exp(k - 1, Len(history)))

RECURSIVE Denominator(_, _)
Denominator(history, k) ==
    IF k = 0 THEN 0
    ELSE Denominator(history, k - 1) + Exp(k - 1, Len(history))

Opposite(a, b) ==
    \/ a = "positive" /\ b = "negative"
    \/ a = "negative" /\ b = "positive"

\* C19: on a non-empty history of n entries get_feedback_score is the sum of
\* the signed contributions over the sum of the weights w_i = exp(i/n), which
\* grow strictly with i; a NEUTRAL entry adds nothing to the numerator and its
\* weight to the denominator; of two entries of equal strength and opposite
\* polarity the later one decides the sign.
C19_RecencyWeightedScore ==
    /\ \A n \in 1..4 :
          /\ Exp(0, n) = One
          /\ \A i \in 0..(n - 2) : Exp(i, n) < Exp(i + 1, n)
    /\ \A s \in 1..Len(statements) :
          LET history == statements[s].feedback_history
              n == Len(history)
              score == get_feedback_score(history)
          IN  n > 0 =>
                /\ score = Div(Numerator(history, n), Denominator(history, n))
                /\ (n = 2 /\ history[1][1] = "neutral" /\ history[2][1] = "positive") =>
                      score = Div(Mul(history[2][2], Exp(1, 2)), Exp(0, 2) + Exp(1, 2))
                /\ (n = 2 /\ history[1][1] = "positive" /\ history[2][1] = "neutral") =>
                      score = Div(history[1][2], Exp(0, 2) + Exp(1, 2))
                /\ (n = 2 /\ Opposite(history[1][1], history[2][1])
                          /\ history[1][2] = history[2][2]) =>
                      IF history[2][1] = "negative" THEN score < 0 ELSE score > 0

\* a cycle scored the history [(POSITIVE, 0.8), (NEGATIVE, 0.8)] below zero
C19_Witness ==
    /\ pc = "idle"
    /\ adaptation_cycles = 1
    /\ cycle_metrics.processed_statements = 1
    /\ statements[1].feedback_history = << <<"positive", 800>>, <<"negative", 800>> >>
    /\ cycle_metrics.average_feedback < 0
    /\ cycle_metrics.average_feedback =
          get_feedback_score(statements[1].feedback_history)

\* the adaptation records of primitive j of statement s
HistoryOf(stmts, s, j) == stmts[s].system_primitives[j].adaptation_history

\* C20: system_state (and the cycle counter) change only in the step that ends a
\* process_feedback_cycle call, once the whole snapshot has been processed;
\* add_statement, add_feedback and adapt leave them alone, and every context
\* handed to adapt in a cycle holds the system_state and cycle index of the
\* call's entry, whatever was adapted or generated before in that cycle.
C20_SystemStateChangesOnlyAtReturn ==
    /\ [][ (system_state' # system_state \/ adaptation_cycles' # adaptation_cycles) =>
              (Returns /\ idx = Len(snapshot)) ]_vars
    /\ [][ (pc = "loop" /\ pc' = "loop" /\ idx' <= Len(snapshot)) =>
              \A s \in 1..Len(statements) :
                 \A j \in 1..Len(statements[s].system_primitives) :
                    \/ HistoryOf(statements', s, j) = HistoryOf(statements, s, j)
                    \/ /\ s = Current
                       /\ Len(HistoryOf(statements', s, j)) =
                             Len(HistoryOf(statements, s, j)) + 1
                       /\ SubSeq(HistoryOf(statements', s, j), 1,
                                 Len(HistoryOf(statements, s, j))) =
                             HistoryOf(statements, s, j)
                       /\ LET record == HistoryOf(statements', s, j)
                                            [Len(HistoryOf(statements', s, j))]
                          IN  /\ record.context.system_state = system_state
                              /\ record.context.cycle = adaptation_cycles ]_vars
    /\ [](\A s \in 1..Len(statements) :
            \A j \in 1..Len(statements[s].system_primitives) :
               \A k \in 1..Len(HistoryOf(statements, s, j)) :
                  LET record == HistoryOf(statements, s, j)[k]
                  IN  /\ record.context.cycle <= adaptation_cycles
                      /\ record.context.cycle = adaptation_cycles =>
                            /\ pc = "loop"
                            /\ record.context.system_state = system_state
                      /\ record.context.cycle = 0 =>
                            record.context.system_state = InitialSystemState)

\* in the second cycle, after the first statement was adapted and a statement
\* generated from it, the second statement's primitive was handed the
\* system_state the first cycle had left and the cycle index 1
C20_Witness ==
    /\ pc = "loop"
    /\ adaptation_cycles = 1
    /\ idx = 2
    /\ system_state # InitialSystemState
    /\ new_statements # <<>>
    /\ new_statements[Len(new_statements)][1] = 1
    /\ Len(HistoryOf(statements, 1, 1)) = 2
    /\ Len(HistoryOf(statements, 2, 1)) = 2
    /\ HistoryOf(statements, 2, 1)[1].context =
          [system_state |-> InitialSystemState, cycle |-> 0]
    /\ HistoryOf(statements, 2, 1)[2].context =
          [system_state |-> system_state, cycle |-> 1]

\* the statements whose feedback_history a step changes
HistoryChanged ==
    {s \in 1..Len(statements) :
        statements'[s].feedback_history # statements[s].feedback_history}

\* C21: the statement collection only grows at its end: no step of
\* add_statement or process_feedback_cycle removes or reorders a statement or
\* changes the content, feedback_history or generated_from of one already there;
\* a feedback_history changes only through add_feedback, which appends exactly
\* one entry.
C21_StatementsAppendOnly ==
    /\ [][ /\ Len(statements') >= Len(statements)
           /\ \A s \in 1..Len(statements) :
                 /\ statements'[s].content = statements[s].content
                 /\ statements'[s].generated_from = statements[s].generated_from ]_vars
    /\ [][ (pc # "idle" \/ pc' # "idle" \/ Len(statements') # Len(statements)) =>
              HistoryChanged = {} ]_vars
    /\ [][ HistoryChanged # {} =>
              /\ Cardinality(HistoryChanged) = 1
              /\ \A s \in HistoryChanged :
                    /\ \E fb \in FeedbackInputs :
                          statements'[s].feedback_history =
                              Append(statements[s].feedback_history, fb)
                    /\ statements'[s].system_primitives = statements[s].system_primitives
              /\ UNCHANGED <<adaptation_cycles, system_state, new_statements>> ]_vars

\* a statement given two different feedback entries kept them in order, with
\* its content, through a cycle that appended a statement generated from it
C21_Witness ==
    /\ pc = "idle"
    /\ adaptation_cycles = 1
    /\ Len(statements) = 2
    /\ statements[1].content = "Improve system efficiency through resource optimization"
    /\ statements[1].generated_from = None
    /\ statements[1].feedback_history = << <<"positive", 650>>, <<"positive", 800>> >>
    /\ statements[2].generated_from = statements[1].content
    /\ statements[2].feedback_history = <<>>

\* the adaptation records held by the primitives j.. of statement s
RECURSIVE RecordsOfStatement(_, _, _)
RecordsOfStatement(stmts, s, j) ==
    IF j > Len(stmts[s].system_primitives) THEN 0
    ELSE Len(HistoryOf(stmts, s, j)) + RecordsOfStatement(stmts, s, j + 1)

\* the adaptation records held by all primitives of the statements s..
RECURSIVE TotalRecords(_, _)
TotalRecords(stmts, s) ==
    IF s > Len(stmts) THEN 0
    ELSE RecordsOfStatement(stmts, s, 1) + TotalRecords(stmts, s + 1)

\* C22: in a process_feedback_cycle call a primitive is counted in adaptations
\* exactly when adapt adapted it: each loop iteration raises adaptations by the
\* number of adaptation records it appended, so the count returned is the
\* number of records appended in the call, and a primitive whose metrics the
\* iteration put into primitive_metrics got a record in it.
C22_AdaptationsCountAdaptedPrimitives ==
    [][ (pc = "loop" /\ pc' = "loop" /\ idx' <= Len(snapshot)) =>
           /\ cycle_metrics'.adaptations - cycle_metrics.adaptations =
                 TotalRecords(statements', 1) - TotalRecords(statements, 1)
           /\ cycle_metrics'.primitive_metrics # cycle_metrics.primitive_metrics =>
                 RecordsOfStatement(statements', Current, 1) >
                     RecordsOfStatement(statements, Current, 1) ]_vars

\* C23: adaptation_cycles goes up by exactly 1 each time process_feedback_cycle
\* returns, also when nothing was processed or adapted, and nothing else
\* changes it; so the cycle indices in new_statements never decrease along the
\* list and, once the call has returned, are all below adaptation_cycles.
C23_CycleCounterCountsCalls ==
    /\ [][ Returns => adaptation_cycles' = adaptation_cycles + 1 ]_vars
    /\ [][ ~Returns => adaptation_cycles' = adaptation_cycles ]_vars
    /\ [](\A k \in 1..Len(new_statements) :
            /\ new_statements[k][1] <= adaptation_cycles
            /\ pc = "idle" => new_statements[k][1] < adaptation_cycles
            /\ k > 1 => new_statements[k - 1][1] <= new_statements[k][1])

\* two calls have returned and each recorded a generated statement under the
\* index it ran with
C23_Witness ==
    /\ pc = "idle"
    /\ adaptation_cycles = 2
    /\ Len(new_statements) = 2
    /\ new_statements[1][1] = 0
    /\ new_statements[2][1] = 1

\* the loop iteration of process_feedback_cycle on Current handed its
\* primitives to adapt
CalledAdapt == cycle_metrics'.adaptations > cycle_metrics.adaptations

\* C24: a cycle does not consume feedback. No step of process_feedback_cycle
\* changes a feedback_history, and whether a statement triggers adaptation
\* depends on its history alone, so without add_feedback in between a statement
\* that triggered in one call triggers in the next; a generated statement starts
\* with an empty history, scores 0.0 and triggers nothing while it stays empty.
C24_FeedbackNotConsumed ==
    /\ [][ (pc = "loop" \/ pc' = "loop") =>
              \A s \in 1..Len(statements) :
                 /\ statements'[s].feedback_history = statements[s].feedback_history
                 /\ Triggers(get_feedback_score(statements'[s].feedback_history)) =
                       Triggers(get_feedback_score(statements[s].feedback_history)) ]_vars
    /\ [][ (pc = "loop" /\ pc' = "loop" /\ idx' <= Len(snapshot)) =>
              /\ CalledAdapt <=>
                    Triggers(get_feedback_score(statements[Current].feedback_history))
              /\ \A s \in (Len(statements) + 1)..Len(statements') :
                    /\ statements'[s].generated_from # None
                    /\ statements'[s].feedback_history = <<>> ]_vars
    /\ [](\A s \in 1..Len(statements) :
            statements[s].feedback_history = <<>> =>
                /\ get_feedback_score(statements[s].feedback_history) = 0
                /\ ~Triggers(get_feedback_score(statements[s].feedback_history))
                /\ (pc = "idle" /\ statements[s].generated_from # None) =>
                      \A j \in 1..Len(statements[s].system_primitives) :
                         HistoryOf(statements, s, j) = <<>>)

\* the second of two cycles without feedback in between has gone over both
\* statements: the first was adapted in both cycles, the statement the first
\* cycle generated from it was processed and not adapted
C24_Witness ==
    /\ pc = "loop"
    /\ adaptation_cycles = 1
    /\ Len(snapshot) = 2
    /\ idx = 2
    /\ statements[1].feedback_history = << <<"positive", 800>> >>
    /\ Len(HistoryOf(statements, 1, 1)) = 2
    /\ HistoryOf(statements, 1, 1)[1].context.cycle = 0
    /\ HistoryOf(statements, 1, 1)[2].context.cycle = 1
    /\ statements[2].generated_from = statements[1].content
    /\ statements[2].feedback_history = <<>>
    /\ HistoryOf(statements, 2, 1) = <<>>
    /\ cycle_metrics.adaptations = 1
    /\ cycle_metrics.processed_statements = 2

\* C25: every statement of the collection carries exactly one primitive; hence
\* in every cycle adaptations <= processed_statements, a loop iteration appends
\* at most one statement, and the collection at most doubles in a cycle.
C25_OnePrimitivePerStatement ==
    /\ [](\A s \in 1..Len(statements) : Len(statements[s].system_primitives) = 1)
    /\ [](cycle_metrics.adaptations <= cycle_metrics.processed_statements)
    /\ [](pc = "loop" =>
            /\ cycle_metrics.processed_statements = idx
            /\ Len(statements) - Len(snapshot) <= idx
            /\ Len(statements) <= 2 * Len(snapshot))
    /\ [][ (pc = "loop" /\ pc' = "loop") =>
              Len(statements') - Len(statements) \in {0, 1} ]_vars
    /\ [][ Returns => Len(statements') <= 2 * Len(snapshot) ]_vars

\* a cycle adapted both statements of its snapshot and each generated one
\* statement: the collection doubled
C25_Witness ==
    /\ pc = "loop"
    /\ Len(snapshot) = 2
    /\ idx = 2
    /\ cycle_metrics.adaptations = 2
    /\ cycle_metrics.processed_statements = 2
    /\ Len(statements) = 4
    /\ \A s \in 1..4 : Len(statements[s].system_primitives) = 1
    /\ statements[3].generated_from = statements[1].content
    /\ statements[4].generated_from = statements[2].content

\* the step on which process_cycle returns
AltReturns == alt_pc = "loop" /\ alt_pc' = "idle"

\* a loop iteration of process_cycle
AltIteration == alt_pc = "loop" /\ alt_pc' = "loop" /\ position' = position + 1

\* primitive leads process_cycle to generate_statements
Qualifying(primitive) ==
    /\ primitive.constructivity # <<>>
    /\ primitive.constructivity[1].qualification # <<>>
    /\ LET qualification == primitive.constructivity[1].qualification[1]
       IN  /\ SumValues(qualification.scores) >= qualification.threshold * Len(qualification.scores)
           /\ primitive.constructivity[1].level >= qualification.threshold
           /\ qualification.semantic_correlation # <<>>
           /\ qualification.semantic_correlation[1].manifest_purpose # <<>>

\* the objectives of the manifest purpose of a qualifying primitive whose
\* priority is strictly above 0.8
HighPriority(primitive) ==
    SelectSeq(primitive.constructivity[1].qualification[1].semantic_correlation[1]
                  .manifest_purpose[1].objectives,
              LAMBDA o : o.priority > 800)

\* the statements the primitives j.. of a statement contribute in one iteration
RECURSIVE Contribution(_, _)
Contribution(system_primitives, j) ==
    IF j > Len(system_primitives) THEN <<>>
    ELSE (IF Qualifying(system_primitives[j])
          THEN [k \in 1..Len(HighPriority(system_primitives[j])) |->
                   [content |-> ImplementText(HighPriority(system_primitives[j])[k].objective,
                                              HighPriority(system_primitives[j])[k].priority),
                    system_primitives |-> <<>>]]
          ELSE <<>>)
         \o Contribution(system_primitives, j + 1)

\* C26: process_cycle of src/Cybernetics.py iterates the live statement list
\* while appending to it and still returns, because the statements it appends
\* carry no primitives; when it returns, processed_statements is the number of
\* statements at entry plus generated_statements; and in an iteration each
\* qualifying primitive of the statement appends one statement per objective
\* of its manifest purpose with priority strictly above 0.8.
C26_LiveIterationTerminates ==
    /\ [](alt_pc = "loop" =>
            /\ alt_cycle_metrics.processed_statements = position
            /\ position <= Len(alt_statements)
            /\ \A s \in 1..Len(alt_statements) :
                  s > Len(alt_statements) - alt_cycle_metrics.generated_statements =>
                      alt_statements[s].system_primitives = <<>>)
    /\ [][ (alt_pc = "idle" /\ alt_pc' = "loop") =>
              /\ alt_statements' = alt_statements
              /\ alt_cycle_metrics'.generated_statements = 0
              /\ alt_cycle_metrics'.processed_statements = 0 ]_vars
    /\ [][ AltIteration =>
              LET contribution ==
                      Contribution(alt_statements[position'].system_primitives, 1)
              IN  /\ alt_statements' = alt_statements \o contribution
                  /\ alt_cycle_metrics'.generated_statements =
                        alt_cycle_metrics.generated_statements + Len(contribution)
                  /\ position' > Len(alt_statements) - alt_cycle_metrics.generated_statements
                        => contribution = <<>> ]_vars
    /\ [][ AltReturns =>
              /\ alt_statements' = alt_statements
              /\ alt_cycle_metrics'.generated_statements =
                    alt_cycle_metrics.generated_statements
              /\ alt_cycle_metrics'.processed_statements = Len(alt_statements)
              /\ alt_cycle_metrics'.processed_statements =
                    (Len(alt_statements) - alt_cycle_metrics.generated_statements)
                        + alt_cycle_metrics'.generated_statements ]_vars
    /\ (alt_pc = "loop") ~> (alt_pc = "idle")

\* process_cycle has returned from a system of one statement with two
\* qualifying primitives: four statements generated (one objective of priority
\* exactly 0.8 passed over), all five processed
C26_Witness ==
    /\ alt_pc = "idle"
    /\ system_metrics.total_statements = 1
    /\ Len(alt_statements) = 5
    /\ Len(alt_statements[1].system_primitives) = 2
    /\ alt_cycle_metrics.generated_statements = 4
    /\ alt_cycle_metrics.processed_statements = 5
    /\ alt_statements[2].content = "Implement reliability improvement with priority 0.85"
    /\ alt_statements[5].content = "Implement security hardening with priority 0.85"
    /\ manifest_purpose = <<ExamplePurpose>>

====
